---- MODULE Spec2Model ----
(***************************************************************************)
(* Model of src/server.js: the timed arithmetic-quiz server.               *)
(*                                                                         *)
(* State: the registry activePlayers (an insertion-ordered JS object), the *)
(* setInterval countdowns, the setTimeout tasks that call                  *)
(* moveToNextQuestion, and the events emitted by the last handler.         *)
(*                                                                         *)
(* Encoding of JS values:                                                  *)
(*   - a JS string is a sequence of one-character strings;                 *)
(*   - a submitted value is [t |-> "number", n |-> k],                     *)
(*     [t |-> "string", s |-> chars] or [t |-> "undefined"];               *)
(*   - player.timer is 0 for null, and k >= 1 for a live interval          *)
(*     whose closure variable timeLeft is k (a live interval always has    *)
(*     timeLeft >= 1 between callbacks: the callback that reaches 0        *)
(*     clears it);                                                         *)
(*   - the wall clock is not stored: Date.now() - gameStartTime is drawn   *)
(*     from ElapsedValues when the code reads it.                          *)
(* Scheduled callbacks (interval ticks, timeouts) fire in any order.       *)
(***************************************************************************)
EXTENDS Integers, Sequences, FiniteSets, TLC

VARIABLES
    conn,           \* socket id -> "new" | "open" | "closed"
    activePlayers,  \* registry: function from the socket ids present to player objects
    order,          \* key order of the registry object (Object.values order)
    orphans,        \* socket id -> intervals still running whose player object was replaced
    pending,        \* socket id -> number of scheduled setTimeout(moveToNextQuestion) tasks
    out,            \* events emitted by the last handler, in order
    scheduled,      \* setTimeout calls of the last handler: <<[id, delay]>>
    last            \* the last handler run: its name, its socket id and its argument

vars == <<conn, activePlayers, order, orphans, pending, out, scheduled, last>>

----------------------------------------------------------------------------
(* Program constants *)

MAX_QUESTIONS == 10
POINTS == 10
TOP_WINNERS == 3
DELAY_CORRECT == 1000
DELAY_WRONG == 2000
DELAY_FAULT == 3000

(* Bounds of the model *)

\* The countdown length. The program sets 60 (src/server.js:15); the model counts
\* down from a shorter value, which changes how many ticks precede a timeout and
\* nothing else.
TIME_PER_QUESTION_SECONDS == 3
\* submitAnswer and joinGame are not taken while this many advances are scheduled
MaxPending == 2

Sockets == {"s1", "s2", "s3", "s4", "s5"}
Conns == {"s1"}                 \* the connections Spec drives

----------------------------------------------------------------------------
(* JS values and parseInt *)

Num(k) == [t |-> "number", n |-> k]
Str(s) == [t |-> "string", s |-> s]
Undefined == [t |-> "undefined"]

Digits == <<"0", "1", "2", "3", "4", "5", "6", "7", "8", "9">>
IsDigit(ch) == \E i \in 1..10 : Digits[i] = ch
DigitVal(ch) == (CHOOSE i \in 1..10 : Digits[i] = ch) - 1
IsSpace(ch) == ch = " "

RECURSIVE NatToChars(_)
NatToChars(k) ==
    IF k < 10 THEN <<Digits[k + 1]>>
    ELSE NatToChars(k \div 10) \o <<Digits[(k % 10) + 1]>>

\* String(v) as parseInt applies it to its first argument
ToJSString(v) ==
    CASE v.t = "string" -> v.s
      [] v.t = "number" -> IF v.n < 0 THEN <<"-">> \o NatToChars(-v.n) ELSE NatToChars(v.n)
      [] OTHER -> <<"u", "n", "d", "e", "f", "i", "n", "e", "d">>

RECURSIVE SkipSpaces(_)
SkipSpaces(s) ==
    IF s # <<>> /\ IsSpace(Head(s)) THEN SkipSpaces(Tail(s)) ELSE s

RECURSIVE DigitPrefix(_)
DigitPrefix(s) ==
    IF s # <<>> /\ IsDigit(Head(s)) THEN <<Head(s)>> \o DigitPrefix(Tail(s)) ELSE <<>>

RECURSIVE CharsToNat(_, _)
CharsToNat(s, acc) ==
    IF s = <<>> THEN acc ELSE CharsToNat(Tail(s), acc * 10 + DigitVal(Head(s)))

NaN == [nan |-> TRUE, val |-> 0]

\* parseInt(v, 10): leading whitespace, optional sign, longest digit prefix
parseInt(v) ==
    LET s0 == SkipSpaces(ToJSString(v))
        neg == s0 # <<>> /\ Head(s0) = "-"
        s1 == IF s0 # <<>> /\ Head(s0) \in {"-", "+"} THEN Tail(s0) ELSE s0
        ds == DigitPrefix(s1)
    IN  IF ds = <<>> THEN NaN
        ELSE [nan |-> FALSE, val |-> IF neg THEN -CharsToNat(ds, 0) ELSE CharsToNat(ds, 0)]

----------------------------------------------------------------------------
(* Question sets *)

\* one draw of (A, B, X) per slot; the model's sample of Math.random() outcomes
RngDraws ==
    { [i \in 0..(MAX_QUESTIONS - 1) |-> [A |-> (i % 5) + 1, B |-> ((3 * i) % 10) + 1, X |-> (i % 10) + 1]]
    }

\* the model's sample of Date.now() at joinGame
NowValues == {1000}

generateQuestionSet(now, draw) ==
    [i \in 0..(MAX_QUESTIONS - 1) |->
        [id     |-> now + i,
         text   |-> [showA |-> draw[i].A # 1, A |-> draw[i].A, B |-> draw[i].B,
                     C |-> draw[i].A * draw[i].X + draw[i].B],
         answer |-> draw[i].X,
         points |-> POINTS]]

QuestionSets == { generateQuestionSet(now, draw) : now \in NowValues, draw \in RngDraws }

----------------------------------------------------------------------------
(* formatTime *)

padStart2(s) == IF Len(s) < 2 THEN <<"0">> \o s ELSE s
slice02(s) == IF Len(s) > 2 THEN SubSeq(s, 1, 2) ELSE s

formatTime(ms) ==
    LET totalSeconds == ms \div 1000
        minutes == totalSeconds \div 60
        seconds == totalSeconds % 60
        milliseconds == ms % 1000
    IN  padStart2(NatToChars(minutes)) \o <<":">> \o padStart2(NatToChars(seconds))
        \o <<".">> \o padStart2(slice02(NatToChars(milliseconds)))

----------------------------------------------------------------------------
(* Events *)

Unicast(id, ev, payload) == [to |-> id, ev |-> ev, payload |-> payload]
Broadcast(ev, payload) == [to |-> "*", ev |-> ev, payload |-> payload]

\* {...question, index, total}: the spread copies every field of the question
NewQuestionPayload(q, index) ==
    [id |-> q.id, text |-> q.text, answer |-> q.answer, points |-> q.points,
     index |-> index, total |-> MAX_QUESTIONS]

\* (mutant) the timeout feedback reads the wrong field of the question
TimeUpFeedbackWrongField(q) == [isCorrect |-> FALSE, reason |-> "Time up!", correctAnswer |-> q.id]
TimeUpFeedback(q) == [isCorrect |-> FALSE, reason |-> "Time up!", correctAnswer |-> q.answer]
InvalidFeedback(q) == [isCorrect |-> FALSE, reason |-> "Invalid Input.", correctAnswer |-> q.answer]
CorrectFeedback(q) == [isCorrect |-> TRUE, reason |-> "", correctAnswer |-> q.answer]
IncorrectFeedback(q) == [isCorrect |-> FALSE, reason |-> "Incorrect.", correctAnswer |-> q.answer]
FaultFeedback(q) == [isCorrect |-> FALSE, reason |-> "Server Error.", correctAnswer |-> q.answer]
\* questionSet[questionIndex]?.answer is undefined: the field is not serialised
FaultFeedbackNoQuestion == [isCorrect |-> FALSE, reason |-> "Server Error."]

----------------------------------------------------------------------------
(* Object.values(activePlayers), Array.prototype.sort (stable), the broadcasts *)

PlayerValues(ap, ord) == [i \in 1..Len(ord) |-> ap[ord[i]]]

LeaderCmpScoreOnly(a, b) == b.score - a.score

\* the comparator of broadcastLeaderboard
LeaderCmp(a, b) ==
    IF a.status = "finished" /\ b.status # "finished" THEN -1
    ELSE IF a.status # "finished" /\ b.status = "finished" THEN 1
    ELSE IF a.status = "finished" /\ b.status = "finished"
         THEN IF b.score # a.score THEN b.score - a.score
              ELSE a.totalTimeMs - b.totalTimeMs
    ELSE b.score - a.score

WinnerCmpScoreOnly(a, b) == b.score - a.score

\* the comparator of checkAndNotifyWinners
WinnerCmp(a, b) ==
    IF b.score # a.score THEN b.score - a.score ELSE a.totalTimeMs - b.totalTimeMs

\* Array.prototype.sort is stable: x goes before the first element it compares
\* strictly below
RECURSIVE InsertLeader(_, _)
InsertLeader(x, s) ==
    IF s = <<>> THEN <<x>>
    ELSE IF LeaderCmp(x, Head(s)) < 0 THEN <<x>> \o s
    ELSE <<Head(s)>> \o InsertLeader(x, Tail(s))

RECURSIVE SortLeaders(_)
SortLeaders(s) ==
    IF s = <<>> THEN <<>>
    ELSE InsertLeader(s[Len(s)], SortLeaders(SubSeq(s, 1, Len(s) - 1)))

RECURSIVE InsertWinner(_, _)
InsertWinner(x, s) ==
    IF s = <<>> THEN <<x>>
    ELSE IF WinnerCmp(x, Head(s)) < 0 THEN <<x>> \o s
    ELSE <<Head(s)>> \o InsertWinner(x, Tail(s))

RECURSIVE SortWinners(_)
SortWinners(s) ==
    IF s = <<>> THEN <<>>
    ELSE InsertWinner(s[Len(s)], SortWinners(SubSeq(s, 1, Len(s) - 1)))

RECURSIVE FilterFinished(_)
FilterFinished(s) ==
    IF s = <<>> THEN <<>>
    ELSE IF Head(s).status = "finished" THEN <<Head(s)>> \o FilterFinished(Tail(s))
    ELSE FilterFinished(Tail(s))

LeaderEntry(p) ==
    [id |-> p.id, name |-> p.name, score |-> p.score,
     status |-> IF p.status = "finished"
                THEN [finished |-> TRUE, time |-> formatTime(p.totalTimeMs), q |-> 0, of |-> 0]
                ELSE [finished |-> FALSE, time |-> <<>>, q |-> p.questionIndex + 1, of |-> MAX_QUESTIONS],
     totalTimeMs |-> IF p.status = "finished" THEN [finite |-> TRUE, ms |-> p.totalTimeMs]
                     ELSE [finite |-> FALSE, ms |-> 0]]

LeaderboardOf(ap, ord) ==
    LET sorted == SortLeaders(PlayerValues(ap, ord))
    IN  [i \in 1..Len(sorted) |-> LeaderEntry(sorted[i])]

broadcastLeaderboard(ap, ord) ==
    LET sortedPlayers == LeaderboardOf(ap, ord)
    IN  << Broadcast("updateLeaderboard", sortedPlayers),
           Broadcast("playerCount", Len(sortedPlayers)) >>

WinnerEntry(p) == [name |-> p.name, score |-> p.score, time |-> formatTime(p.totalTimeMs)]

\* filter, sort, slice(0, 3): the player objects before the map
TopFinished(ap, ord) ==
    LET sorted == SortWinners(FilterFinished(PlayerValues(ap, ord)))
    IN  SubSeq(sorted, 1, IF Len(sorted) < TOP_WINNERS THEN Len(sorted) ELSE TOP_WINNERS)

WinnersOf(ap, ord) ==
    LET top == TopFinished(ap, ord)
    IN  [i \in 1..Len(top) |-> WinnerEntry(top[i])]

checkAndNotifyWinners(ap, ord) ==
    LET finishedPlayers == WinnersOf(ap, ord)
    IN  IF Len(finishedPlayers) > 0
        THEN << Broadcast("winnerNotification", finishedPlayers) >>
        ELSE <<>>

----------------------------------------------------------------------------
(* Inputs *)

\* playerName arguments of joinGame; "" stands for every falsy name
NameInputs == {"Alice", ""}
\* the names the clients of Spec send
SpecNames == {""}
\* `Player ${Math.floor(Math.random() * 1000)}`
RandomNames == {"Player 7"}
\* the model's sample of Date.now() - gameStartTime
ElapsedValues == {4000, 5000, 6050}

\* the data argument of submitAnswer for a player whose current question is q and
\* whose question set is qs; [null |-> TRUE] is a payload with no fields to read
AnswerInputs(q) ==
    { Num(q.answer), Num(q.answer + 1), Str(NatToChars(q.answer)),
      Str(<<" ">> \o NatToChars(q.answer) \o <<"x">>), Str(<<"x">>), Undefined }
QuestionIdInputs(q) ==
    { Num(q.id), Num(q.id + 1), Str(NatToChars(q.id)) }
NullData == [null |-> TRUE, questionId |-> Undefined, answer |-> Undefined]
NoData == [null |-> FALSE, questionId |-> Undefined, answer |-> Undefined]
DataInputs(q) ==
    {NullData}
    \cup { [null |-> FALSE, questionId |-> Num(q.id), answer |-> a] : a \in AnswerInputs(q) }
    \cup { [null |-> FALSE, questionId |-> qid, answer |-> Num(q.answer)] :
             qid \in QuestionIdInputs(q) }

----------------------------------------------------------------------------
(* Helpers on the state *)

Present(c) == c \in DOMAIN activePlayers
InProgress(c) == Present(c) /\ activePlayers[c].status = "in-progress"
HasTimer(p) == p.timer > 0
CurrentQ(p) == p.questionSet[p.questionIndex]
HasCurrentQ(p) == p.questionIndex \in DOMAIN p.questionSet
Handler(op, c, arg) == [op |-> op, id |-> c, data |-> arg]

\* (mutant) one player object shared by every key of the registry
PutShared(ap, c, p) == [x \in DOMAIN ap \cup {c} |-> [p EXCEPT !.id = x]]

Put(ap, c, p) == [x \in DOMAIN ap \cup {c} |-> IF x = c THEN p ELSE ap[x]]
Delete(ap, c) == [x \in DOMAIN ap \ {c} |-> ap[x]]

RECURSIVE RemoveKey(_, _)
RemoveKey(ord, c) ==
    IF ord = <<>> THEN <<>>
    ELSE IF Head(ord) = c THEN RemoveKey(Tail(ord), c)
    ELSE <<Head(ord)>> \o RemoveKey(Tail(ord), c)

RemoveAt(s, i) == SubSeq(s, 1, i - 1) \o SubSeq(s, i + 1, Len(s))

\* (mutant) the socket lookup fails and the function returns before setInterval
startQuestionTimerNoSocket(ap, c) == [ap |-> ap, out |-> << >>]

\* startQuestionTimer(playerId) for a registry ap: the registry and the events after it.
\* A handler for playerId runs only while its socket is connected, so the socket is found.
startQuestionTimer(ap, c) ==
    IF c \notin DOMAIN ap \/ ap[c].status = "finished"
    THEN [ap |-> ap, out |-> <<>>]
    ELSE [ap  |-> [ap EXCEPT ![c].timer = TIME_PER_QUESTION_SECONDS],
          out |-> << Unicast(c, "updateTimer", TIME_PER_QUESTION_SECONDS) >>]

----------------------------------------------------------------------------
(* Handlers *)

Init ==
    /\ conn = [c \in Sockets |-> "new"]
    /\ activePlayers = << >>
    /\ order = << >>
    /\ orphans = [c \in Sockets |-> << >>]
    /\ pending = [c \in Sockets |-> 0]
    /\ out = << >>
    /\ scheduled = << >>
    /\ last = Handler("init", "", NoData)

\* io.on('connection')
Connect(c) ==
    /\ conn[c] = "new"
    /\ conn' = [conn EXCEPT ![c] = "open"]
    /\ out' = broadcastLeaderboard(activePlayers, order)
    /\ scheduled' = << >>
    /\ last' = Handler("connection", c, NoData)
    /\ UNCHANGED <<activePlayers, order, orphans, pending>>

\* socket.on('joinGame')
JoinGame(c, playerName, rnd, qs) ==
    /\ conn[c] = "open"
    /\ LET replaced == Present(c) /\ HasTimer(activePlayers[c])
           newPlayer == [id |-> c,
                         name |-> IF playerName # "" THEN playerName ELSE rnd,
                         score |-> 0,
                         questionIndex |-> 0,
                         questionSet |-> qs,
                         totalTimeMs |-> 0,
                         timer |-> 0,
                         status |-> "in-progress"]
           ap1 == Put(activePlayers, c, newPlayer)
           ord1 == IF Present(c) THEN order ELSE Append(order, c)
           st == startQuestionTimer(ap1, c)
       IN  \* bounds of the model: one replaced-but-running interval per socket, and no
           \* join while MaxPending advances are scheduled
           /\ replaced => orphans[c] = << >>
           /\ pending[c] < MaxPending
           /\ activePlayers' = st.ap
           /\ order' = ord1
           \* the interval of the replaced object is not cleared: it keeps running
           /\ orphans' = IF replaced
                         THEN [orphans EXCEPT ![c] = Append(@,
                                 [questionSet |-> activePlayers[c].questionSet,
                                  questionIndex |-> activePlayers[c].questionIndex,
                                  timer |-> activePlayers[c].timer])]
                         ELSE orphans
           /\ out' = << Unicast(c, "newQuestion", NewQuestionPayload(qs[0], 1)) >>
                     \o st.out
                     \o broadcastLeaderboard(st.ap, ord1)
                     \o checkAndNotifyWinners(st.ap, ord1)
    /\ scheduled' = << >>
    /\ last' = Handler("joinGame", c, NoData)
    /\ UNCHANGED <<conn, pending>>

\* the setInterval callback of the timer held by the registry's player object
Tick(c) ==
    /\ Present(c)
    /\ HasTimer(activePlayers[c])
    /\ LET player == activePlayers[c]
           timeLeft == player.timer - 1
       IN  IF timeLeft <= 0
           THEN /\ activePlayers' = [activePlayers EXCEPT ![c].timer = 0]
                /\ out' = << Unicast(c, "updateTimer", timeLeft),
                             Unicast(c, "answerFeedback", TimeUpFeedback(CurrentQ(player))) >>
                /\ scheduled' = << [id |-> c, delay |-> DELAY_WRONG] >>
                /\ pending' = [pending EXCEPT ![c] = @ + 1]
           ELSE /\ activePlayers' = [activePlayers EXCEPT ![c].timer = timeLeft]
                /\ out' = << Unicast(c, "updateTimer", timeLeft) >>
                /\ scheduled' = << >>
                /\ UNCHANGED pending
    /\ last' = Handler("tick", c, NoData)
    /\ UNCHANGED <<conn, order, orphans>>

\* the setInterval callback of an interval whose player object was replaced by a later join
OrphanTick(c, i) ==
    /\ i \in 1..Len(orphans[c])
    /\ LET player == orphans[c][i]
           timeLeft == player.timer - 1
       IN  IF timeLeft <= 0
           THEN /\ orphans' = [orphans EXCEPT ![c] = RemoveAt(@, i)]
                /\ out' = << Unicast(c, "updateTimer", timeLeft),
                             Unicast(c, "answerFeedback", TimeUpFeedback(CurrentQ(player))) >>
                /\ scheduled' = << [id |-> c, delay |-> DELAY_WRONG] >>
                /\ pending' = [pending EXCEPT ![c] = @ + 1]
           ELSE /\ orphans' = [orphans EXCEPT ![c][i].timer = timeLeft]
                /\ out' = << Unicast(c, "updateTimer", timeLeft) >>
                /\ scheduled' = << >>
                /\ UNCHANGED pending
    /\ last' = Handler("orphanTick", c, NoData)
    /\ UNCHANGED <<conn, activePlayers, order>>

\* moveToNextQuestion past its first guard: the player object exists
advanceExisting(ap, ord, c, elapsed) ==
    LET ap1 == [ap EXCEPT ![c].timer = 0, ![c].questionIndex = @ + 1]
    IN  IF ap1[c].questionIndex < MAX_QUESTIONS
        THEN LET st == startQuestionTimer(ap1, c)
             IN  [ap  |-> st.ap,
                  out |-> << Unicast(c, "newQuestion",
                                NewQuestionPayload(CurrentQ(ap1[c]), ap1[c].questionIndex + 1)) >>
                          \o st.out
                          \o broadcastLeaderboard(st.ap, ord)]
        ELSE LET ap2 == [ap1 EXCEPT ![c].status = "finished", ![c].totalTimeMs = elapsed]
             IN  [ap  |-> ap2,
                  out |-> << Unicast(c, "gameOver",
                                [score |-> ap2[c].score, totalTime |-> formatTime(elapsed)]) >>
                          \o broadcastLeaderboard(ap2, ord)
                          \o checkAndNotifyWinners(ap2, ord)]

\* (mutant) a missing player is taken for a fresh one instead of returning
moveToNextQuestionResurrects(ap, ord, c, elapsed) ==
    IF c \notin DOMAIN ap
    THEN advanceExisting(
            Put(ap, c, [id |-> c, name |-> "", score |-> 0, questionIndex |-> 0,
                        questionSet |-> CHOOSE qs \in QuestionSets : TRUE,
                        totalTimeMs |-> 0, timer |-> 0, status |-> "in-progress"]),
            ord, c, elapsed)
    ELSE advanceExisting(ap, ord, c, elapsed)

\* moveToNextQuestion(playerId) on registry ap with elapsed = Date.now() - gameStartTime
moveToNextQuestion(ap, ord, c, elapsed) ==
    IF c \notin DOMAIN ap THEN [ap |-> ap, out |-> << >>]
    ELSE advanceExisting(ap, ord, c, elapsed)

\* a setTimeout(() => moveToNextQuestion(id), delay) task fires
Advance(c, elapsed) ==
    /\ pending[c] > 0
    \* the clock does not run backwards: a later reading of the same player's elapsed
    \* time is not smaller
    /\ Present(c) => elapsed >= activePlayers[c].totalTimeMs
    /\ LET r == moveToNextQuestion(activePlayers, order, c, elapsed)
       IN  /\ activePlayers' = r.ap
           /\ out' = r.out
    /\ pending' = [pending EXCEPT ![c] = @ - 1]
    /\ scheduled' = << >>
    /\ last' = Handler("advance", c, NoData)
    /\ UNCHANGED <<conn, order, orphans>>

\* (mutant) the submitted answer is compared as sent, without parseInt
submitAnswerNoParse(player, data) ==
    LET currentQ == CurrentQ(player)
        isCorrect == /\ data.questionId = Num(currentQ.id)
                     /\ data.answer = Num(currentQ.answer)
    IN  IF ~HasCurrentQ(player)
        THEN [player |-> player, feedback |-> FaultFeedbackNoQuestion, delay |-> DELAY_FAULT]
        ELSE IF data.null
        THEN [player |-> player, feedback |-> FaultFeedback(currentQ), delay |-> DELAY_FAULT]
        ELSE IF parseInt(data.answer).nan
        THEN [player |-> player, feedback |-> InvalidFeedback(currentQ), delay |-> DELAY_WRONG]
        ELSE IF isCorrect
        THEN [player   |-> [player EXCEPT !.timer = 0, !.score = @ + currentQ.points],
              feedback |-> CorrectFeedback(currentQ),
              delay    |-> DELAY_CORRECT]
        ELSE [player   |-> [player EXCEPT !.timer = 0],
              feedback |-> IncorrectFeedback(currentQ),
              delay    |-> DELAY_WRONG]

\* (mutant) no isNaN check: a non-numeric answer is evaluated like any other
submitAnswerNoNaNCheck(player, data) ==
    LET currentQ == CurrentQ(player)
        submittedAnswerInt == parseInt(data.answer)
        isCorrect == /\ data.questionId = Num(currentQ.id)
                     /\ ~submittedAnswerInt.nan
                     /\ submittedAnswerInt.val = currentQ.answer
    IN  IF ~HasCurrentQ(player)
        THEN [player |-> player, feedback |-> FaultFeedbackNoQuestion, delay |-> DELAY_FAULT]
        ELSE IF data.null
        THEN [player |-> player, feedback |-> FaultFeedback(currentQ), delay |-> DELAY_FAULT]
        ELSE IF isCorrect
        THEN [player   |-> [player EXCEPT !.timer = 0, !.score = @ + currentQ.points],
              feedback |-> CorrectFeedback(currentQ),
              delay    |-> DELAY_CORRECT]
        ELSE [player   |-> [player EXCEPT !.timer = 0],
              feedback |-> IncorrectFeedback(currentQ),
              delay    |-> DELAY_WRONG]

\* the body of the submitAnswer handler for a player that exists and is not finished:
\* the player object, the feedback and the delay of the advance it schedules
submitAnswer(player, data) ==
    LET currentQ == CurrentQ(player)
        submittedAnswerInt == parseInt(data.answer)
        isCorrect == /\ data.questionId = Num(currentQ.id)
                     /\ submittedAnswerInt.val = currentQ.answer
    IN  IF ~HasCurrentQ(player)
        \* currentQ is undefined: reading currentQ.answer or currentQ.id throws
        THEN [player |-> player, feedback |-> FaultFeedbackNoQuestion, delay |-> DELAY_FAULT]
        ELSE IF data.null
        \* reading data.answer throws: the catch block
        THEN [player |-> player, feedback |-> FaultFeedback(currentQ), delay |-> DELAY_FAULT]
        ELSE IF submittedAnswerInt.nan
        THEN [player |-> player, feedback |-> InvalidFeedback(currentQ), delay |-> DELAY_WRONG]
        ELSE IF isCorrect
        THEN [player   |-> [player EXCEPT !.timer = 0, !.score = @ + currentQ.points],
              feedback |-> CorrectFeedback(currentQ),
              delay    |-> DELAY_CORRECT]
        ELSE [player   |-> [player EXCEPT !.timer = 0],
              feedback |-> IncorrectFeedback(currentQ),
              delay    |-> DELAY_WRONG]

\* (mutant) the guard without the status test
NotPlayingMissingOnly(ap, c) == c \notin DOMAIN ap

\* the guard of the submitAnswer handler: !player || player.status === 'finished'
NotPlaying(ap, c) == c \notin DOMAIN ap \/ ap[c].status = "finished"

\* socket.on('submitAnswer')
SubmitAnswer(c, data) ==
    /\ conn[c] = "open"
    /\ last' = Handler("submitAnswer", c, data)
    /\ IF NotPlaying(activePlayers, c)
       THEN /\ out' = << >>
            /\ scheduled' = << >>
            /\ UNCHANGED <<activePlayers, pending>>
       ELSE /\ pending[c] < MaxPending
            /\ LET r == submitAnswer(activePlayers[c], data)
               IN  /\ activePlayers' = [activePlayers EXCEPT ![c] = r.player]
                   /\ out' = << Unicast(c, "answerFeedback", r.feedback) >>
                   /\ scheduled' = << [id |-> c, delay |-> r.delay] >>
                   /\ pending' = [pending EXCEPT ![c] = @ + 1]
    /\ UNCHANGED <<conn, order, orphans>>

\* socket.on('disconnect')
Disconnect(c) ==
    /\ conn[c] = "open"
    /\ conn' = [conn EXCEPT ![c] = "closed"]
    \* clearInterval(player.timer) and delete: the object and its interval are gone
    /\ activePlayers' = Delete(activePlayers, c)
    /\ order' = RemoveKey(order, c)
    /\ out' = broadcastLeaderboard(activePlayers', order')
              \o checkAndNotifyWinners(activePlayers', order')
    /\ scheduled' = << >>
    /\ last' = Handler("disconnect", c, NoData)
    /\ UNCHANGED <<orphans, pending>>

----------------------------------------------------------------------------
(* Specification *)

\* the question a client of c is looking at, for choosing its submissions
ShownQ(c) ==
    IF Present(c) /\ activePlayers[c].questionIndex < MAX_QUESTIONS
    THEN CurrentQ(activePlayers[c])
    ELSE (CHOOSE qs \in QuestionSets : TRUE)[0]

Next ==
    \E c \in Conns :
        \/ Connect(c)
        \/ \E playerName \in SpecNames, rnd \in RandomNames, qs \in QuestionSets :
              JoinGame(c, playerName, rnd, qs)
        \/ Tick(c)
        \/ \E i \in 1..Len(orphans[c]) : OrphanTick(c, i)
        \/ \E elapsed \in ElapsedValues : Advance(c, elapsed)
        \/ \E data \in DataInputs(ShownQ(c)) : SubmitAnswer(c, data)
        \/ Disconnect(c)

Spec == Init /\ [][Next]_vars

\* Registries of several sessions, for the ranking functions: each socket either has
\* not connected yet or holds a session that is in progress (with its countdown
\* running) or finished, with the scores and elapsed times below. Sockets got their
\* sessions in the order of SocketSeq.
SocketSeq == << "s1", "s2", "s3", "s4", "s5" >>
RankElapsed == {4000, 5000, 6000}

RankSessions(c) ==
    LET qs == CHOOSE q \in QuestionSets : TRUE
        base == [id |-> c, name |-> "Alice", score |-> 0, questionIndex |-> 0,
                 questionSet |-> qs, totalTimeMs |-> 0,
                 timer |-> TIME_PER_QUESTION_SECONDS, status |-> "in-progress"]
    IN  { base,
          [base EXCEPT !.score = 9 * POINTS, !.questionIndex = MAX_QUESTIONS - 1] }
        \cup { [base EXCEPT !.score = sc, !.questionIndex = MAX_QUESTIONS, !.timer = 0,
                            !.totalTimeMs = ms, !.status = "finished"] :
                 sc \in {9 * POINTS, 10 * POINTS}, ms \in RankElapsed }

RECURSIVE KeepKeys(_, _)
KeepKeys(seq, keys) ==
    IF seq = << >> THEN << >>
    ELSE IF Head(seq) \in keys THEN << Head(seq) >> \o KeepKeys(Tail(seq), keys)
    ELSE KeepKeys(Tail(seq), keys)

RankInit ==
    /\ \E joined \in SUBSET Sockets :
          /\ conn = [c \in Sockets |-> IF c \in joined THEN "open" ELSE "new"]
          /\ activePlayers \in [joined -> UNION { RankSessions(c) : c \in joined }]
          /\ \A c \in joined : activePlayers[c].id = c
          /\ order = KeepKeys(SocketSeq, joined)
    /\ orphans = [c \in Sockets |-> << >>]
    /\ pending = [c \in Sockets |-> 0]
    /\ out = << >>
    /\ scheduled = << >>
    /\ last = Handler("init", "", NoData)

RankNext ==
    \E c \in Sockets :
        \/ Connect(c)
        \/ Disconnect(c)

SpecRank == RankInit /\ [][RankNext]_vars

\* Two sockets served by the one event loop, their handlers interleaved in every
\* order. To keep the product of the two sessions small, a session present at the
\* start has answered all but its last DuoLast questions correctly, a session is
\* advanced only through its last DuoLast questions, no joinGame arrives while the
\* socket's countdown runs, no submission arrives while an advance of the socket
\* is scheduled, and submissions are a fault, a non-numeric answer and the correct
\* answer.
DuoConns == {"s1", "s2"}
DuoLast == 2

LateSession(c) ==
    [id |-> c, name |-> "Alice", score |-> (MAX_QUESTIONS - DuoLast) * POINTS,
     questionIndex |-> MAX_QUESTIONS - DuoLast,
     questionSet |-> CHOOSE q \in QuestionSets : TRUE, totalTimeMs |-> 0,
     timer |-> TIME_PER_QUESTION_SECONDS, status |-> "in-progress"]

DuoInit ==
    /\ \E joined \in SUBSET DuoConns :
          /\ conn = [c \in Sockets |-> IF c \in joined THEN "open" ELSE "new"]
          /\ activePlayers = [c \in joined |-> LateSession(c)]
          /\ order = KeepKeys(SocketSeq, joined)
    /\ orphans = [c \in Sockets |-> << >>]
    /\ pending = [c \in Sockets |-> 0]
    /\ out = << >>
    /\ scheduled = << >>
    /\ last = Handler("init", "", NoData)

DuoDataInputs(q) ==
    { NullData,
      [null |-> FALSE, questionId |-> Num(q.id), answer |-> Str(<<"x">>)],
      [null |-> FALSE, questionId |-> Num(q.id), answer |-> Num(q.answer)] }

DuoNext ==
    \E c \in DuoConns :
        \/ Connect(c)
        \/ \E playerName \in SpecNames, rnd \in RandomNames, qs \in QuestionSets :
              /\ ~(Present(c) /\ HasTimer(activePlayers[c]))
              /\ JoinGame(c, playerName, rnd, qs)
        \/ Tick(c)
        \/ \E elapsed \in ElapsedValues :
              /\ InProgress(c) => activePlayers[c].questionIndex >= MAX_QUESTIONS - DuoLast
              /\ Advance(c, elapsed)
        \/ \E data \in DuoDataInputs(ShownQ(c)) :
              /\ pending[c] = 0
              /\ SubmitAnswer(c, data)
        \/ Disconnect(c)

SpecDuo == DuoInit /\ [][DuoNext]_vars

\* The runs checked for progress: the client sends joinGame again only while no
\* countdown is running (so no replaced interval is left behind), and its submissions
\* are one of each outcome: faulting, non-numeric, correct, wrong answer, wrong id.
FairDataInputs(q) ==
    { NullData,
      [null |-> FALSE, questionId |-> Num(q.id), answer |-> Str(<<"x">>)],
      [null |-> FALSE, questionId |-> Num(q.id), answer |-> Str(NatToChars(q.answer))],
      [null |-> FALSE, questionId |-> Num(q.id), answer |-> Num(q.answer + 1)],
      [null |-> FALSE, questionId |-> Num(q.id + 1), answer |-> Num(q.answer)] }

FairNext ==
    \E c \in Conns :
        \/ Connect(c)
        \/ \E playerName \in SpecNames, rnd \in RandomNames, qs \in QuestionSets :
              /\ ~(Present(c) /\ HasTimer(activePlayers[c]))
              /\ JoinGame(c, playerName, rnd, qs)
        \/ Tick(c)
        \/ \E elapsed \in ElapsedValues : Advance(c, elapsed)
        \/ \E data \in FairDataInputs(ShownQ(c)) : SubmitAnswer(c, data)
        \/ Disconnect(c)

\* The event loop runs every timer callback that is due: an interval that stays live
\* ticks, a scheduled timeout fires.
Fairness ==
    \A c \in Conns :
        /\ WF_vars(Tick(c))
        /\ WF_vars(\E elapsed \in ElapsedValues : Advance(c, elapsed))

FairSpec == Init /\ [][FairNext]_vars /\ Fairness

----------------------------------------------------------------------------
(* Properties *)

\* the live setInterval countdowns whose callbacks act for socket id c
LiveTimersIn(ap, orph, c) ==
    (IF c \in DOMAIN ap /\ HasTimer(ap[c]) THEN 1 ELSE 0) + Len(orph[c])
LiveTimers(c) == LiveTimersIn(activePlayers, orphans, c)

EventsNamed(evs, names) == { i \in 1..Len(evs) : evs[i].ev \in names }

\* the step is handler op run for socket c
Ran(op, c) == last'.op = op /\ last'.id = c

\* C1: every session in the registry has 0 <= questionIndex <= MAX_QUESTIONS, and
\* questionIndex = MAX_QUESTIONS implies status = finished.
C1_IndexWithinRange ==
    \A c \in DOMAIN activePlayers :
        /\ 0 <= activePlayers[c].questionIndex
        /\ activePlayers[c].questionIndex <= MAX_QUESTIONS
        /\ activePlayers[c].questionIndex = MAX_QUESTIONS => activePlayers[c].status = "finished"

\* C2: a connection identity has at most one live countdown timer at any instant.
C2_AtMostOneTimer ==
    \A c \in Sockets : LiveTimers(c) <= 1

\* C3: when submitAnswer is handled for an existing in-progress session, whatever the
\* payload, the session has no live timer when the handler returns.
C3_SubmitLeavesNoTimer ==
    [][ \A c \in Sockets :
          (Ran("submitAnswer", c) /\ ~NotPlaying(activePlayers, c))
          => LiveTimersIn(activePlayers', orphans', c) = 0 ]_vars

\* C4: a delayed advance that fires for a session that is already finished changes
\* none of questionIndex, status, score, totalTimeMs and emits no gameOver,
\* newQuestion or winnerNotification.
C4_AdvanceOnFinishedIsNoOp ==
    [][ \A c \in Sockets :
          (Ran("advance", c) /\ Present(c) /\ activePlayers[c].status = "finished")
          => /\ activePlayers'[c].questionIndex = activePlayers[c].questionIndex
             /\ activePlayers'[c].status = activePlayers[c].status
             /\ activePlayers'[c].score = activePlayers[c].score
             /\ activePlayers'[c].totalTimeMs = activePlayers[c].totalTimeMs
             /\ EventsNamed(out', {"gameOver", "newQuestion", "winnerNotification"}) = {} ]_vars

\* C5: an advance that fires after its session disconnected changes nothing: the
\* session is not put back in the registry, no timer is started, no event is sent.
C5_AdvanceAfterDisconnectIsNoOp ==
    [][ \A c \in Sockets :
          (Ran("advance", c) /\ conn[c] = "closed")
          => /\ c \notin DOMAIN activePlayers'
             /\ activePlayers' = activePlayers
             /\ order' = order
             /\ LiveTimersIn(activePlayers', orphans', c) = LiveTimersIn(activePlayers, orphans, c)
             /\ orphans' = orphans
             /\ out' = << >>
             /\ scheduled' = << >> ]_vars

\* C5 witness: an advance has just fired for a socket that had disconnected.
C5_Witness ==
    /\ last.op = "advance"
    /\ conn[last.id] = "closed"
    /\ out = << >>

\* C6: right after disconnect is handled, the session has no live timer and no
\* scheduled advance for its id remains.
C6_DisconnectLeavesNothingScheduled ==
    last.op = "disconnect" => (LiveTimers(last.id) = 0 /\ pending[last.id] = 0)

\* C7: no newQuestion event carries the question's expected answer.
C7_NewQuestionHidesAnswer ==
    \A i \in 1..Len(out) :
        out[i].ev = "newQuestion" => "answer" \notin DOMAIN out[i].payload

\* an answer given as a number or as a string of decimal digits, and the integer it denotes
\* (read off the digits, not through parseInt)
MaxSubmittedValue == 20
IsDecimal(v) ==
    \/ v.t = "number"
    \/ v.t = "string" /\ \E k \in 0..MaxSubmittedValue : NatToChars(k) = v.s
DecimalValue(v) ==
    IF v.t = "number" THEN v.n ELSE CHOOSE k \in 0..MaxSubmittedValue : NatToChars(k) = v.s

\* an answer with no digit in it
IsNonNumeric(v) ==
    \/ v.t = "undefined"
    \/ v.t = "string" /\ \A i \in 1..Len(v.s) : ~IsDigit(v.s[i])

\* C8: for an in-progress session and an answer given as a number or a decimal string,
\* the outcome is Correct iff the submitted question id equals the current question's
\* id and the answer's value equals the expected answer; score grows by the question's
\* 10 points when Correct and is unchanged otherwise; isCorrect equals the outcome.
C8_SubmissionOutcome ==
    [][ \A c \in Sockets :
          (/\ Ran("submitAnswer", c)
           /\ ~NotPlaying(activePlayers, c)
           /\ ~last'.data.null
           /\ IsDecimal(last'.data.answer))
          => LET q == CurrentQ(activePlayers[c])
                 correct == /\ last'.data.questionId = Num(q.id)
                            /\ DecimalValue(last'.data.answer) = q.answer
             IN  /\ activePlayers'[c].score
                      = activePlayers[c].score + (IF correct THEN 10 ELSE 0)
                 /\ Len(out') = 1
                 /\ out'[1].ev = "answerFeedback"
                 /\ out'[1].to = c
                 /\ out'[1].payload.isCorrect = correct ]_vars

\* C8 witness: the expected answer, sent as a string for the current question id, has
\* just been accepted and scored.
C8_Witness ==
    /\ last.op = "submitAnswer"
    /\ last.data.answer.t = "string"
    /\ IsDecimal(last.data.answer)
    /\ Present(last.id)
    /\ activePlayers[last.id].score >= 20
    /\ Len(out) = 1
    /\ out[1].payload.isCorrect

\* C9: a non-numeric answer on an in-progress session yields the Invalid Input feedback
\* (isCorrect false, with the correct answer), leaves score and questionIndex as they
\* are, schedules exactly one advance, after 2000 ms, and the socket stays served.
C9_NonNumericIsInvalidInput ==
    [][ \A c \in Sockets :
          (/\ Ran("submitAnswer", c)
           /\ ~NotPlaying(activePlayers, c)
           /\ ~last'.data.null
           /\ IsNonNumeric(last'.data.answer))
          => /\ out' = << [to |-> c, ev |-> "answerFeedback",
                           payload |-> [isCorrect |-> FALSE, reason |-> "Invalid Input.",
                                        correctAnswer |-> CurrentQ(activePlayers[c]).answer]] >>
             /\ activePlayers'[c].score = activePlayers[c].score
             /\ activePlayers'[c].questionIndex = activePlayers[c].questionIndex
             /\ activePlayers'[c].status = "in-progress"
             /\ scheduled' = << [id |-> c, delay |-> 2000] >>
             /\ pending'[c] = pending[c] + 1
             /\ conn'[c] = "open" ]_vars

\* C9 witness: a non-numeric answer has just been handled for a session past its first
\* question.
C9_Witness ==
    /\ last.op = "submitAnswer"
    /\ ~last.data.null
    /\ IsNonNumeric(last.data.answer)
    /\ Present(last.id)
    /\ activePlayers[last.id].status = "in-progress"
    /\ activePlayers[last.id].questionIndex > 0
    /\ scheduled # << >>

\* C10: submitAnswer for a connection with no session, or whose session is finished,
\* changes no session field, starts or cancels no timer, schedules no advance and
\* emits no event.
C10_SubmitWithoutSessionIsNoOp ==
    [][ \A c \in Sockets :
          (/\ Ran("submitAnswer", c)
           /\ (~Present(c) \/ activePlayers[c].status = "finished"))
          => /\ activePlayers' = activePlayers
             /\ order' = order
             /\ orphans' = orphans
             /\ pending' = pending
             /\ scheduled' = << >>
             /\ out' = << >> ]_vars

\* C10 witness: a submission has just been handled for a finished session.
C10_Witness ==
    /\ last.op = "submitAnswer"
    /\ Present(last.id)
    /\ activePlayers[last.id].status = "finished"
    /\ out = << >>

C12_ElapsedSetOnce ==
    [][ \A c \in Sockets :
          (/\ Present(c)
           /\ c \in DOMAIN activePlayers'
           /\ last'.op # "joinGame")
          => /\ (activePlayers[c].status = "finished"
                 => activePlayers'[c].totalTimeMs = activePlayers[c].totalTimeMs)
             /\ (activePlayers'[c].totalTimeMs # activePlayers[c].totalTimeMs
                 => activePlayers[c].status = "in-progress"
                    /\ activePlayers'[c].status = "finished") ]_vars

\* C18: no double advance: for each question presented to a session at most one advance
\* takes effect, so when an advance presents the next question (or ends the game) no
\* further advance is left scheduled for that session.
C18_NoDoubleAdvance ==
    [][ \A c \in Sockets :
          (Ran("advance", c) /\ Present(c) /\ activePlayers[c].status = "in-progress")
          => pending'[c] = 0 ]_vars

\* the questions presented so far to a session
QuestionsPresented(p) ==
    IF p.questionIndex + 1 < MAX_QUESTIONS THEN p.questionIndex + 1 ELSE MAX_QUESTIONS

\* C19: each question awards its points at most once:
\* score <= 10 * (questions presented so far) <= 10 * MAX_QUESTIONS.
C19_PointsOncePerQuestion ==
    \A c \in DOMAIN activePlayers :
        /\ activePlayers[c].score <= 10 * QuestionsPresented(activePlayers[c])
        /\ 10 * QuestionsPresented(activePlayers[c]) <= 10 * MAX_QUESTIONS

\* C16: the winners list is recomputed and broadcast on every event that can change the
\* finished subset, so that the last winnerNotification broadcast equals the winners of
\* the current registry: a step that changes the winners broadcasts the new list; and
\* no winnerNotification is broadcast on a timer tick or on an advance to a question.
C16_WinnersFollowRegistry ==
    [][ /\ WinnersOf(activePlayers', order') # WinnersOf(activePlayers, order)
           => \E i \in 1..Len(out') :
                 out'[i] = [to |-> "*", ev |-> "winnerNotification",
                            payload |-> WinnersOf(activePlayers', order')]
        /\ \A c \in Sockets :
             (\/ Ran("tick", c)
              \/ Ran("orphanTick", c)
              \/ (Ran("advance", c) /\ c \in DOMAIN activePlayers'
                  /\ activePlayers'[c].status = "in-progress"))
             => EventsNamed(out', {"winnerNotification"}) = {} ]_vars


\* C13: no session is stuck: under fair scheduling of ticks and timeouts, a session
\* that is in progress eventually is finished, unless its socket disconnects or
\* starts a new session with another joinGame first; whatever is submitted.
C13_NeverStuck ==
    \A c \in Conns :
        InProgress(c) ~> (~InProgress(c) \/ (last.op = "joinGame" /\ last.id = c))

\* C13 witness: a session that received a faulting submission on its last question
\* and is still waiting for its advance.
C13_Witness ==
    /\ last.op = "submitAnswer"
    /\ last.data.null
    /\ InProgress(last.id)
    /\ activePlayers[last.id].questionIndex = MAX_QUESTIONS - 1
    /\ scheduled = << [id |-> last.id, delay |-> DELAY_FAULT] >>

PosIn(seq, x) == CHOOSE i \in 1..Len(seq) : seq[i] = x

Boards == { out[i].payload : i \in EventsNamed(out, {"updateLeaderboard"}) }

SameKeys(a, b) ==
    /\ a.status.finished = b.status.finished
    /\ a.score = b.score
    /\ a.totalTimeMs = b.totalTimeMs

Finished == { c \in DOMAIN activePlayers : activePlayers[c].status = "finished" }

Outranks(a, b) ==
    \/ a.score > b.score
    \/ a.score = b.score /\ a.totalTimeMs < b.totalTimeMs

KeysOf(s) == [i \in 1..Len(s) |-> << s[i].score, s[i].totalTimeMs >>]

ScenarioKeys == << << 100, 5000 >>, << 100, 6000 >>, << 90, 4000 >> >>

\* C15: the winners list computed from the registry holds finished sessions only,
\* each once, at most three of them (all of them when there are no more than three),
\* by score descending then elapsed time ascending, and no finished session left
\* out outranks one that is in; finished sessions of (100, 5000), (100, 6000) and
\* (90, 4000) are listed in that order; and a winnerNotification a handler
\* broadcasts carries exactly that list.
C15_WinnersList ==
    LET top == TopFinished(activePlayers, order)
        inTop == { top[i].id : i \in 1..Len(top) }
    IN  /\ Len(top) <= TOP_WINNERS
        /\ Len(top) = Cardinality(inTop)
        /\ Cardinality(Finished) <= TOP_WINNERS => inTop = Finished
        /\ Cardinality(Finished) > TOP_WINNERS => Len(top) = TOP_WINNERS
        /\ \A i \in 1..Len(top) :
              /\ top[i].id \in Finished
              /\ top[i] = activePlayers[top[i].id]
        /\ \A i, j \in 1..Len(top) : i < j => ~Outranks(top[j], top[i])
        /\ \A c \in Finished \ inTop :
              \A i \in 1..Len(top) : ~Outranks(activePlayers[c], top[i])
        /\ { KeysOf(top)[i] : i \in 1..Len(top) } = { ScenarioKeys[i] : i \in 1..3 }
              => KeysOf(top) = ScenarioKeys
        /\ \A k \in EventsNamed(out, {"winnerNotification"}) :
              out[k].payload = [i \in 1..Len(top) |-> WinnerEntry(top[i])]

\* a disconnect has broadcast three winners out of four finished sessions, the one
\* left out having joined before one that is in
C15_Witness ==
    LET top == TopFinished(activePlayers, order)
        inTop == { top[i].id : i \in 1..Len(top) }
    IN  /\ last.op = "disconnect"
        /\ Cardinality(Finished) = 4
        /\ \E k \in EventsNamed(out, {"winnerNotification"}) : Len(out[k].payload) = 3
        /\ \E c \in Finished \ inTop, d \in inTop : PosIn(order, c) < PosIn(order, d)
        /\ KeysOf(top) = ScenarioKeys

Touched(b) ==
    \/ Present(b)' # Present(b)
    \/ Present(b) /\ Present(b)' /\ activePlayers'[b] # activePlayers[b]
    \/ orphans'[b] # orphans[b]
    \/ pending'[b] # pending[b]

\* C17: a handler run for one socket (connection, joinGame, submitAnswer with any
\* payload, interval tick, scheduled advance, disconnect) leaves every other
\* socket's session as it was: its presence in the registry, score, questionIndex,
\* status, totalTimeMs, question set and countdown, and its scheduled advances.
C17_SessionsIsolated ==
    [][ \A b \in Sockets : b # last'.id => ~Touched(b) ]_vars

\* a scheduled advance has finished the session of s1 while s2 held a session in
\* progress with its countdown part run down
C17_Witness ==
    /\ last.op = "advance"
    /\ last.id = "s1"
    /\ Present("s1") /\ activePlayers["s1"].status = "finished"
    /\ Present("s2") /\ activePlayers["s2"].status = "in-progress"
    /\ HasTimer(activePlayers["s2"])
    /\ activePlayers["s2"].timer < TIME_PER_QUESTION_SECONDS
    /\ pending["s2"] = 0

====
